---- MODULE Spec2Model ----
(***************************************************************************)
(* Model of Source/SynthSource.h: SineWaveVoice (oscillator + tail-off     *)
(* envelope), and SynthSource (the audio source that feeds one event of a  *)
(* MidiMessageSequence per block to a 4-voice juce::Synthesiser).          *)
(*                                                                         *)
(* Real-valued fields are held in fixed point:                             *)
(*   tailOff       in units of 1/TailOffOne                                *)
(*   level, sample in units of 1/1000000                                   *)
(*   currentAngle, angleDelta in units of 1/1000000 of a cycle (2*pi)      *)
(* Sample positions and timestamps are whole numbers of samples, as in the *)
(* source (44100, 44100*3, ...).                                           *)
(***************************************************************************)
EXTENDS Integers, Sequences, FiniteSets, TLC

VARIABLES
    samplePosition,     \* SynthSource::samplePosition
    sampleRate,         \* playback sample rate of the synth (0 until prepareToPlay)
    sequence,           \* SynthSource::sequence, the sorted event list
    midiBuffer,         \* SynthSource::midiBuffer, events handed to the synth in the last block
    voices,             \* the synth's voices, in pool order
    lastNoteOnCounter,  \* the synth's note-on counter (orders voices by age)
    outputBuffer,       \* the buffer region written by the last call, outputBuffer[channel][sample]
    nextEventIndex,     \* the value of the local nextEventIndex in the last block (-1 before the first)
    blockStart,         \* samplePosition at entry of the last block (-1 before the first)
    dispatched,         \* history: the sequence indices handed to the synth, in order
    bufferToFill,       \* history: the buffer region as it was passed to the last render call
    renderRange,        \* history: <<startSample, numSamples>> of the last render call
    lastVoiceCall       \* history: the SineWaveVoice method called last, and on which voices

vars == <<samplePosition, sampleRate, sequence, midiBuffer, voices,
          lastNoteOnCounter, outputBuffer, nextEventIndex, blockStart, dispatched,
          bufferToFill, renderRange, lastVoiceCall>>

----------------------------------------------------------------------------
(* Bounds of the model *)

\* the playback clock is not advanced beyond this position
MaxClock == 134000
\* number of channels of the host's buffer
NumChannels == 2
\* SpecVoice: a note is sustained for at most this many samples before it is released
MaxSustainSamples == 2
\* SpecVoice: the voice is started at most this many times
MaxNoteOns == 2
\* SpecVoice: number of samples of the buffer handed to the voice
VoiceBufferLen == 2

\* SpecPool: the synth is sent at most this many note-ons
MaxPoolNoteOns == 5
\* SpecPool: the playback clock is not advanced beyond this position
MaxPoolClock == 528

\* block sizes the host requests in Spec
BlockSizes == {441, 882}
\* block size of the scheduling example
ExampleBlockSizes == {512}
\* sample rates of the device the host plays on
PlaybackRates == {44100}
\* SpecVoice: the notes and velocities the voice is started with
VoiceNotes == {60}
VoiceVelocities == {100}
\* SpecPool: the notes sent to the synth, and the sizes of the blocks it renders (0: the
\* event is handled and nothing is rendered; 528: long enough for a whole decay)
PoolNotes == {60, 72}
PoolBlockSizes == {0, 528}
\* what the host's buffer may hold on entry (per sample, all channels)
Fills == {7}

----------------------------------------------------------------------------
(* Program constants *)

NumVoices == 4
\* fixed-point image of tailOff = 1.0
TailOffOne == 20000000
\* fixed-point image of the release threshold 0.005
TailOffThreshold == 100000
\* one cycle (2*pi) of currentAngle
TwoPi == 1000000

NoNote == -1

----------------------------------------------------------------------------
(* Library functions used by the voice *)

\* MidiMessage::getMidiNoteInHertz, in milli-Hertz: 440 * 2^((n-69)/12)
OctaveMilliHertz ==
    <<261626, 277183, 293665, 311127, 329628, 349228,
      369994, 391995, 415305, 440000, 466164, 493883>>

RECURSIVE Pow2(_)
Pow2(k) == IF k <= 0 THEN 1 ELSE 2 * Pow2(k - 1)

getMidiNoteInHertz(n) ==
    LET base == OctaveMilliHertz[(n % 12) + 1]
        oct  == n \div 12
    IN IF oct >= 5 THEN base * Pow2(oct - 5) ELSE base \div Pow2(5 - oct)

\* std::sin scaled by 1000, for an angle in 1/TwoPi of a cycle (Bhaskara's formula)
Sin(angle) ==
    LET x == angle % TwoPi
        h == (x % (TwoPi \div 2)) \div 500
        p == h * (1000 - h)
        s == (1600 * p) \div ((5000000 - 4 * p) \div 10)
    IN IF x < TwoPi \div 2 THEN s ELSE 0 - s

\* MidiMessage::getFloatVelocity * 0.15, in 1/1000000
Level(velocity) == (velocity * 150000) \div 127

----------------------------------------------------------------------------
(* SineWaveVoice *)

IdleVoice ==
    [currentAngle |-> 0, angleDelta |-> 0, level |-> 0, tailOff |-> 0,
     currentlyPlayingNote |-> NoNote, keyDown |-> FALSE, noteOnTime |-> 0]

\* SynthesiserVoice::clearCurrentNote
clearCurrentNote(v) == [v EXCEPT !.currentlyPlayingNote = NoNote]

isVoiceActive(v) == v.currentlyPlayingNote >= 0

\* startNote that goes on from the phase the voice was left with
startNote_keepsPhase(v, midiNoteNumber, velocity, rate) ==
    [v EXCEPT !.level = Level(velocity),
              !.tailOff = 0,
              !.angleDelta = (getMidiNoteInHertz(midiNoteNumber) * 1000) \div rate]

\* SineWaveVoice::startNote
startNote(v, midiNoteNumber, velocity, rate) ==
    [v EXCEPT !.currentAngle = 0,
              !.level = Level(velocity),
              !.tailOff = 0,
              !.angleDelta = (getMidiNoteInHertz(midiNoteNumber) * 1000) \div rate]

\* stopNote that begins a tail-off on every call, also during one
stopNote_restartsTail(v, allowTailOff) ==
    IF allowTailOff
    THEN [v EXCEPT !.tailOff = TailOffOne]
    ELSE [clearCurrentNote(v) EXCEPT !.angleDelta = 0]

\* stopNote that clears the note of a voice told to stop at once, but leaves angleDelta
stopNote_keepsAngleDelta(v, allowTailOff) ==
    IF allowTailOff
    THEN IF v.tailOff = 0 THEN [v EXCEPT !.tailOff = TailOffOne] ELSE v
    ELSE clearCurrentNote(v)

\* SineWaveVoice::stopNote
stopNote(v, allowTailOff) ==
    IF allowTailOff
    THEN IF v.tailOff = 0 THEN [v EXCEPT !.tailOff = TailOffOne] ELSE v
    ELSE [clearCurrentNote(v) EXCEPT !.angleDelta = 0]

\* the loop over channels of renderNextBlock: AudioBuffer::addSample on channel i - 1, ..., 0
RECURSIVE addSample(_, _, _, _)
addSample(buf, i, startSample, currentSample) ==
    IF i - 1 < 0 THEN buf
    ELSE addSample([buf EXCEPT ![i][startSample + 1] = @ + currentSample],
                   i - 1, startSample, currentSample)

\* an iteration of the tail-off loop that tests tailOff before it is multiplied
tailIteration_testsBeforeDecay(v, buf, startSample) ==
    LET currentSample ==
            (((Sin(v.currentAngle) * v.level) \div 1000) * (v.tailOff \div 20000)) \div 1000
        buf2 == addSample(buf, Len(buf), startSample, currentSample)
        t2   == (v.tailOff * 99) \div 100
        v2   == [v EXCEPT !.currentAngle = @ + v.angleDelta, !.tailOff = t2]
    IN IF v.tailOff <= TailOffThreshold
       THEN [voice |-> [clearCurrentNote(v2) EXCEPT !.angleDelta = 0], buffer |-> buf2]
       ELSE [voice |-> v2, buffer |-> buf2]

\* an iteration of the tail-off loop that clears the note at the threshold and leaves
\* angleDelta as it is
tailIteration_keepsAngleDelta(v, buf, startSample) ==
    LET currentSample ==
            (((Sin(v.currentAngle) * v.level) \div 1000) * (v.tailOff \div 20000)) \div 1000
        buf2 == addSample(buf, Len(buf), startSample, currentSample)
        t2   == (v.tailOff * 99) \div 100
        v2   == [v EXCEPT !.currentAngle = @ + v.angleDelta, !.tailOff = t2]
    IN IF t2 <= TailOffThreshold
       THEN [voice |-> clearCurrentNote(v2), buffer |-> buf2]
       ELSE [voice |-> v2, buffer |-> buf2]

\* one iteration of the tail-off loop of renderNextBlock; the voice goes idle
\* (angleDelta = 0) in the iteration that takes tailOff to the threshold
tailIteration(v, buf, startSample) ==
    LET currentSample ==
            (((Sin(v.currentAngle) * v.level) \div 1000) * (v.tailOff \div 20000)) \div 1000
        buf2 == addSample(buf, Len(buf), startSample, currentSample)
        t2   == (v.tailOff * 99) \div 100
        v2   == [v EXCEPT !.currentAngle = @ + v.angleDelta, !.tailOff = t2]
    IN IF t2 <= TailOffThreshold
       THEN [voice |-> [clearCurrentNote(v2) EXCEPT !.angleDelta = 0], buffer |-> buf2]
       ELSE [voice |-> v2, buffer |-> buf2]

\* the tail-off loop of renderNextBlock: the iterations for startSample .. startSample +
\* numSamples - 1 in order, stopping after the one that makes the voice idle (the break)
RECURSIVE renderTail(_, _, _, _)
renderTail(v, buf, startSample, numSamples) ==
    IF numSamples <= 0 THEN [voice |-> v, buffer |-> buf]
    ELSE IF numSamples = 1 THEN tailIteration(v, buf, startSample)
    ELSE LET half == numSamples \div 2
             r    == renderTail(v, buf, startSample, half)
         IN IF r.voice.angleDelta = 0
            THEN r
            ELSE renderTail(r.voice, r.buffer, startSample + half, numSamples - half)

\* a sustain loop that stores its samples in the buffer instead of adding them to it
renderSustain_overwrites(v, buf, startSample, numSamples) ==
    LET currentSample ==
            SubSeq([k \in 1..numSamples |->
                       (Sin(v.currentAngle + (k - 1) * v.angleDelta) * v.level) \div 1000],
                   1, numSamples)
        channel(c) ==
            [i \in 1..Len(buf[c]) |->
                IF i - 1 >= startSample /\ i - 1 < startSample + numSamples
                THEN currentSample[i - startSample]
                ELSE buf[c][i]]
    IN IF numSamples <= 0
       THEN [voice |-> v, buffer |-> buf]
       ELSE [voice  |-> [v EXCEPT !.currentAngle = @ + numSamples * v.angleDelta],
             buffer |-> SubSeq([c \in 1..Len(buf) |-> SubSeq(channel(c), 1, Len(buf[c]))],
                               1, Len(buf))]

\* the sustain loop of renderNextBlock.  Iteration k (from 0) adds
\* sin(currentAngle + k * angleDelta) * level to sample startSample + k of every channel
\* and nothing else depends on the iterations before it, so the numSamples iterations
\* are written as one pass over the buffer (SubSeq only fixes a result as a sequence)
renderSustain(v, buf, startSample, numSamples) ==
    LET currentSample ==
            SubSeq([k \in 1..numSamples |->
                       (Sin(v.currentAngle + (k - 1) * v.angleDelta) * v.level) \div 1000],
                   1, numSamples)
        channel(c) ==
            [i \in 1..Len(buf[c]) |->
                IF i - 1 >= startSample /\ i - 1 < startSample + numSamples
                THEN buf[c][i] + currentSample[i - startSample]
                ELSE buf[c][i]]
    IN IF numSamples <= 0
       THEN [voice |-> v, buffer |-> buf]
       ELSE [voice  |-> [v EXCEPT !.currentAngle = @ + numSamples * v.angleDelta],
             buffer |-> SubSeq([c \in 1..Len(buf) |-> SubSeq(channel(c), 1, Len(buf[c]))],
                               1, Len(buf))]

\* renderNextBlock without the test of angleDelta
renderNextBlock_noIdleTest(v, buf, startSample, numSamples) ==
    IF v.tailOff > 0
    THEN renderTail(v, buf, startSample, numSamples)
    ELSE renderSustain(v, buf, startSample, numSamples)

\* SineWaveVoice::renderNextBlock
renderNextBlock(v, buf, startSample, numSamples) ==
    IF v.angleDelta # 0
    THEN IF v.tailOff > 0
         THEN renderTail(v, buf, startSample, numSamples)
         ELSE renderSustain(v, buf, startSample, numSamples)
    ELSE [voice |-> v, buffer |-> buf]

----------------------------------------------------------------------------
(* juce::Synthesiser, as SynthSource uses it *)

\* Synthesiser::findFreeVoice without stealing: the first voice that is not active (0 if none)
firstFreeVoice(vs) ==
    IF \E i \in DOMAIN vs : ~isVoiceActive(vs[i])
    THEN CHOOSE i \in DOMAIN vs :
             /\ ~isVoiceActive(vs[i])
             /\ \A j \in DOMAIN vs : j < i => isVoiceActive(vs[j])
    ELSE 0

\* SynthesiserVoice::isPlayingButReleased (no sustain or sostenuto pedal events exist here)
isPlayingButReleased(v) == isVoiceActive(v) /\ ~v.keyDown

\* the voices of `cands' ordered by noteOnTime, oldest first
RECURSIVE oldestFirst(_, _)
oldestFirst(vs, cands) ==
    IF cands = {} THEN <<>>
    ELSE LET i == CHOOSE a \in cands :
                      \A b \in cands : vs[a].noteOnTime < vs[b].noteOnTime
                                         \/ (vs[a].noteOnTime = vs[b].noteOnTime /\ a <= b)
         IN <<i>> \o oldestFirst(vs, cands \ {i})

\* the first element of the sequence s that is in the set S (0 if there is none)
firstOf(s, S) ==
    IF \E k \in DOMAIN s : s[k] \in S
    THEN s[CHOOSE k \in DOMAIN s : s[k] \in S /\ \A j \in DOMAIN s : j < k => s[j] \notin S]
    ELSE 0

\* Synthesiser::findVoiceToSteal: every voice is active when this is called
findVoiceToSteal(vs, midiNoteNumber) ==
    LET usable == oldestFirst(vs, DOMAIN vs)
        held   == {i \in DOMAIN vs : ~isPlayingButReleased(vs[i])}
        low    == IF held = {} THEN 0
                  ELSE CHOOSE i \in held : \A j \in held :
                           vs[i].currentlyPlayingNote < vs[j].currentlyPlayingNote
                           \/ (vs[i].currentlyPlayingNote = vs[j].currentlyPlayingNote /\ i <= j)
        top0   == IF held = {} THEN 0
                  ELSE CHOOSE i \in held : \A j \in held :
                           vs[i].currentlyPlayingNote > vs[j].currentlyPlayingNote
                           \/ (vs[i].currentlyPlayingNote = vs[j].currentlyPlayingNote /\ i <= j)
        top    == IF top0 = low THEN 0 ELSE top0
        free        == DOMAIN vs \ {low, top}
        samePitch   == {i \in DOMAIN vs : vs[i].currentlyPlayingNote = midiNoteNumber}
        released    == {i \in free : isPlayingButReleased(vs[i])}
        noFinger    == {i \in free : ~vs[i].keyDown}
    IN IF firstOf(usable, samePitch) # 0 THEN firstOf(usable, samePitch)
       ELSE IF firstOf(usable, released) # 0 THEN firstOf(usable, released)
       ELSE IF firstOf(usable, noFinger) # 0 THEN firstOf(usable, noFinger)
       ELSE IF firstOf(usable, free) # 0 THEN firstOf(usable, free)
       ELSE IF top # 0 THEN top ELSE low

\* findFreeVoice that steals the first voice of the pool
findFreeVoice_stealsFirst(vs, midiNoteNumber) ==
    IF firstFreeVoice(vs) # 0 THEN firstFreeVoice(vs) ELSE 1

\* Synthesiser::findFreeVoice with note stealing enabled (the default)
findFreeVoice(vs, midiNoteNumber) ==
    IF firstFreeVoice(vs) # 0 THEN firstFreeVoice(vs) ELSE findVoiceToSteal(vs, midiNoteNumber)

\* Synthesiser::startVoice
startVoice(v, midiNoteNumber, velocity, rate, counter) ==
    LET v1 == IF isVoiceActive(v) THEN stopNote(v, FALSE) ELSE v
        v2 == [v1 EXCEPT !.currentlyPlayingNote = midiNoteNumber,
                         !.noteOnTime = counter,
                         !.keyDown = TRUE]
    IN startNote(v2, midiNoteNumber, velocity, rate)

\* noteOn that starts a voice and leaves the voices ringing with this note as they are
noteOn_noRelease(vs, counter, rate, midiNoteNumber, velocity) ==
    LET k == findFreeVoice(vs, midiNoteNumber)
    IN [voices  |-> [vs EXCEPT ![k] = startVoice(vs[k], midiNoteNumber, velocity, rate, counter + 1)],
        counter |-> counter + 1]

\* Synthesiser::noteOn: voices still ringing with this note are released, then a voice is started
noteOn(vs, counter, rate, midiNoteNumber, velocity) ==
    LET vs1 == [i \in DOMAIN vs |->
                   IF vs[i].currentlyPlayingNote = midiNoteNumber
                   THEN stopNote(vs[i], TRUE) ELSE vs[i]]
        k   == findFreeVoice(vs1, midiNoteNumber)
    IN [voices  |-> [vs1 EXCEPT ![k] = startVoice(vs1[k], midiNoteNumber, velocity, rate, counter + 1)],
        counter |-> counter + 1]

\* noteOff that releases every voice, whatever note it plays
noteOff_ignoresNote(vs, midiNoteNumber) ==
    [i \in DOMAIN vs |-> stopNote([vs[i] EXCEPT !.keyDown = FALSE], TRUE)]

\* Synthesiser::noteOff with allowTailOff = true, as handleMidiEvent calls it
noteOff(vs, midiNoteNumber) ==
    [i \in DOMAIN vs |->
        IF vs[i].currentlyPlayingNote = midiNoteNumber
        THEN stopNote([vs[i] EXCEPT !.keyDown = FALSE], TRUE)
        ELSE vs[i]]

\* Synthesiser::handleMidiEvent for the two kinds of message the sequence holds
handleMidiEvent(vs, counter, rate, m) ==
    IF m.isNoteOn
    THEN noteOn(vs, counter, rate, m.note, m.velocity)
    ELSE [voices |-> noteOff(vs, m.note), counter |-> counter]

RECURSIVE handleMidiEvents(_, _, _, _)
handleMidiEvents(vs, counter, rate, ms) ==
    IF ms = <<>> THEN [voices |-> vs, counter |-> counter]
    ELSE LET r == handleMidiEvent(vs, counter, rate, Head(ms))
         IN handleMidiEvents(r.voices, r.counter, rate, Tail(ms))

\* Synthesiser::renderVoices: every voice renders into the same buffer, in pool order
RECURSIVE renderVoices(_, _, _, _, _)
renderVoices(vs, buf, startSample, numSamples, i) ==
    IF i > Len(vs) THEN [voices |-> vs, buffer |-> buf]
    ELSE LET r == renderNextBlock(vs[i], buf, startSample, numSamples)
         IN renderVoices([vs EXCEPT ![i] = r.voice], r.buffer, startSample, numSamples, i + 1)

\* a synth that returns at once when the midi buffer is empty
synthRenderNextBlock_skipsWithoutEvents(vs, counter, rate, ms, buf, numSamples) ==
    IF ms = <<>>
    THEN [voices |-> vs, counter |-> counter, buffer |-> buf]
    ELSE LET h == handleMidiEvents(vs, counter, rate, ms)
             r == renderVoices(h.voices, buf, 0, numSamples, 1)
         IN [voices |-> r.voices, counter |-> h.counter, buffer |-> r.buffer]

\* Synthesiser::renderNextBlock for a midi buffer whose events all sit at sample 0:
\* the events are handled first, then the whole block is rendered
synthRenderNextBlock(vs, counter, rate, ms, buf, numSamples) ==
    LET h == handleMidiEvents(vs, counter, rate, ms)
        r == renderVoices(h.voices, buf, 0, numSamples, 1)
    IN [voices |-> r.voices, counter |-> h.counter, buffer |-> r.buffer]

\* Synthesiser::setCurrentPlaybackSampleRate: a change of rate stops every voice at once
setCurrentPlaybackSampleRate(vs, oldRate, newRate) ==
    IF oldRate # newRate
    THEN [i \in DOMAIN vs |-> stopNote(vs[i], FALSE)]
    ELSE vs

----------------------------------------------------------------------------
(* MidiMessageSequence *)

Message(on, note, velocity, time) ==
    [isNoteOn |-> on, note |-> note, velocity |-> velocity, time |-> time]

\* MidiMessageSequence::addEvent: insert after the last event whose time is <= the new one
addEvent(seq, m) ==
    LET before == {i \in DOMAIN seq : seq[i].time <= m.time}
        k == IF before = {} THEN 0 ELSE CHOOSE i \in before : \A j \in before : j <= i
    IN SubSeq(seq, 1, k) \o <<m>> \o SubSeq(seq, k + 1, Len(seq))

\* MidiMessageSequence::getNextIndexAtTime: index (from 0) of the first event at or after
\* timeStamp, the number of events if there is none
getNextIndexAtTime(seq, timeStamp) ==
    LET hits == {i \in DOMAIN seq : seq[i].time >= timeStamp}
    IN IF hits = {} THEN Len(seq)
       ELSE (CHOOSE i \in hits : \A j \in hits : i <= j) - 1

\* MidiMessageSequence::getEventTime: 0 for an index out of range
getEventTime(seq, index) ==
    IF index >= 0 /\ index < Len(seq) THEN seq[index + 1].time ELSE 0

\* SynthSource::initMidiSequence
initMidiSequence ==
    LET s1 == addEvent(<<>>, Message(TRUE, 60, 100, 44100))
        s2 == addEvent(s1, Message(FALSE, 60, 0, 44100 * 3))
        s3 == addEvent(s2, Message(TRUE, 72, 100, 44100))
        s4 == addEvent(s3, Message(FALSE, 72, 0, 44100 + 22000))
        s5 == addEvent(s4, Message(TRUE, 64, 100, 44100 * 2))
        s6 == addEvent(s5, Message(FALSE, 64, 0, 44100 * 2 + 22000))
    IN s6

----------------------------------------------------------------------------
(* SynthSource *)

\* the sequence of n copies of x (SubSeq only fixes the result as a sequence)
Repeat(x, n) == SubSeq([i \in 1..n |-> x], 1, n)

\* a buffer region of numSamples samples on NumChannels channels, every sample holding `fill'
Region(numSamples, fill) == Repeat(Repeat(fill, numSamples), NumChannels)

\* a clearActiveBufferRegion that leaves the region as it is
clearActiveBufferRegion_keeps(buf) == buf

\* AudioSourceChannelInfo::clearActiveBufferRegion: every sample of every channel becomes 0
clearActiveBufferRegion(buf) == Repeat(Repeat(0, Len(buf[1])), Len(buf))

\* a window that also takes an event whose timestamp is the block start
dueEvents_closedWindow(seq, position, numSamples) ==
    LET index == getNextIndexAtTime(seq, position)
        nextEventTime == getEventTime(seq, index)
    IN IF nextEventTime >= position /\ nextEventTime <= position + numSamples
          /\ index < Len(seq)
       THEN <<index>>
       ELSE <<>>

\* a getNextAudioBlock that puts every event of the window into midiBuffer
dueEvents_drainsWindow(seq, position, numSamples) ==
    LET inWindow == {i \in DOMAIN seq :
                        seq[i].time > position /\ seq[i].time <= position + numSamples}
        first == getNextIndexAtTime(seq, position)
    IN [k \in 1..Cardinality(inWindow) |-> first + k - 1]

\* the event, if any, that getNextAudioBlock puts into midiBuffer
dueEvents(seq, position, numSamples) ==
    LET index == getNextIndexAtTime(seq, position)
        nextEventTime == getEventTime(seq, index)
    IN IF nextEventTime > position /\ nextEventTime <= position + numSamples
       THEN <<index>>
       ELSE <<>>

\* a record of the voice method called last
VoiceCall(method, allowTailOff, on) ==
    [method |-> method, allowTailOff |-> allowTailOff, voices |-> on]

\* SynthSource::SynthSource
Init ==
    /\ samplePosition = 0
    /\ sampleRate = 0
    /\ sequence = initMidiSequence
    /\ midiBuffer = <<>>
    /\ voices = [i \in 1..NumVoices |-> IdleVoice]
    /\ lastNoteOnCounter = 0
    /\ outputBuffer = Region(0, 0)
    /\ nextEventIndex = -1
    /\ blockStart = -1
    /\ dispatched = <<>>
    /\ bufferToFill = Region(0, 0)
    /\ renderRange = <<0, 0>>
    /\ lastVoiceCall = VoiceCall("none", FALSE, {})

\* prepareToPlay that also rewinds the clock
prepareToPlay_rewinds(newSampleRate) ==
    /\ sampleRate' = newSampleRate
    /\ voices' = setCurrentPlaybackSampleRate(voices, sampleRate, newSampleRate)
    /\ lastVoiceCall' = IF sampleRate # newSampleRate
                        THEN VoiceCall("stopNote", FALSE, DOMAIN voices)
                        ELSE lastVoiceCall
    /\ samplePosition' = 0
    /\ UNCHANGED <<sequence, midiBuffer, lastNoteOnCounter,
                   outputBuffer, nextEventIndex, blockStart, dispatched,
                   bufferToFill, renderRange>>

\* SynthSource::prepareToPlay
prepareToPlay(newSampleRate) ==
    /\ sampleRate' = newSampleRate
    /\ voices' = setCurrentPlaybackSampleRate(voices, sampleRate, newSampleRate)
    /\ lastVoiceCall' = IF sampleRate # newSampleRate
                        THEN VoiceCall("stopNote", FALSE, DOMAIN voices)
                        ELSE lastVoiceCall
    /\ UNCHANGED <<samplePosition, sequence, midiBuffer, lastNoteOnCounter,
                   outputBuffer, nextEventIndex, blockStart, dispatched,
                   bufferToFill, renderRange>>

\* SynthSource::releaseResources
releaseResources ==
    /\ sampleRate # 0
    /\ UNCHANGED vars

\* a getNextAudioBlock that takes the event after the last one it dispatched, when that
\* event is due by the end of the block, instead of querying the sequence by position
getNextAudioBlock_cursor(numSamples, fill) ==
    /\ sampleRate # 0
    /\ samplePosition + numSamples <= MaxClock
    /\ LET cleared == clearActiveBufferRegion(Region(numSamples, fill))
           cursor  == Len(dispatched)
           due     == IF cursor < Len(sequence)
                         /\ getEventTime(sequence, cursor) <= samplePosition + numSamples
                      THEN <<cursor>>
                      ELSE <<>>
           msgs    == [k \in DOMAIN due |-> sequence[due[k] + 1]]
       IN \E r \in {synthRenderNextBlock(voices, lastNoteOnCounter, sampleRate,
                                         msgs, cleared, numSamples)} :
          /\ nextEventIndex' = cursor
          /\ midiBuffer' = msgs
          /\ dispatched' = dispatched \o due
          /\ voices' = r.voices
          /\ lastNoteOnCounter' = r.counter
          /\ outputBuffer' = r.buffer
          /\ blockStart' = samplePosition
          /\ samplePosition' = samplePosition + numSamples
    /\ bufferToFill' = Region(numSamples, fill)
    /\ renderRange' = <<0, numSamples>>
    /\ lastVoiceCall' = VoiceCall("renderNextBlock", FALSE, DOMAIN voices)
    /\ UNCHANGED <<sampleRate, sequence>>

\* SynthSource::getNextAudioBlock on a region of numSamples samples that holds `fill'
getNextAudioBlock(numSamples, fill) ==
    /\ sampleRate # 0
    /\ samplePosition + numSamples <= MaxClock
    /\ LET cleared == clearActiveBufferRegion(Region(numSamples, fill))
           due     == dueEvents(sequence, samplePosition, numSamples)
           msgs    == [k \in DOMAIN due |-> sequence[due[k] + 1]]
       IN \E r \in {synthRenderNextBlock(voices, lastNoteOnCounter, sampleRate,
                                         msgs, cleared, numSamples)} :
          /\ nextEventIndex' = getNextIndexAtTime(sequence, samplePosition)
          /\ midiBuffer' = msgs
          /\ dispatched' = dispatched \o due
          /\ voices' = r.voices
          /\ lastNoteOnCounter' = r.counter
          /\ outputBuffer' = r.buffer
          /\ blockStart' = samplePosition
          /\ samplePosition' = samplePosition + numSamples
    /\ bufferToFill' = Region(numSamples, fill)
    /\ renderRange' = <<0, numSamples>>
    /\ lastVoiceCall' = VoiceCall("renderNextBlock", FALSE, DOMAIN voices)
    /\ UNCHANGED <<sampleRate, sequence>>

Next ==
    \/ \E r \in PlaybackRates : prepareToPlay(r)
    \/ releaseResources
    \/ \E n \in BlockSizes, f \in Fills : getNextAudioBlock(n, f)

Spec == Init /\ [][Next]_vars

\* the scheduling example of the specification: every block has 512 samples
NextExample ==
    \/ \E r \in PlaybackRates : prepareToPlay(r)
    \/ releaseResources
    \/ \E n \in ExampleBlockSizes, f \in Fills : getNextAudioBlock(n, f)

SpecExample == Init /\ [][NextExample]_vars

----------------------------------------------------------------------------
(* One SineWaveVoice driven directly, as the synth drives it: Synthesiser::startVoice,
   Synthesiser::stopVoice and SynthesiserVoice::renderNextBlock on the first voice. *)

\* the voice sustains and has rendered its quota of samples
sustainQuotaLeft(v, numSamples) ==
    (v.angleDelta # 0 /\ v.tailOff = 0) =>
        v.currentAngle + numSamples * v.angleDelta <= MaxSustainSamples * v.angleDelta

\* Synthesiser::startVoice on the first voice
VoiceStart(midiNoteNumber, velocity) ==
    /\ sampleRate # 0
    /\ lastNoteOnCounter < MaxNoteOns
    /\ voices' = [voices EXCEPT ![1] = startVoice(@, midiNoteNumber, velocity, sampleRate,
                                                  lastNoteOnCounter + 1)]
    /\ lastNoteOnCounter' = lastNoteOnCounter + 1
    /\ lastVoiceCall' = VoiceCall("startNote", FALSE, {1})
    /\ bufferToFill' = Region(0, 0)
    /\ outputBuffer' = Region(0, 0)
    /\ renderRange' = <<0, 0>>
    /\ UNCHANGED <<samplePosition, sampleRate, sequence, midiBuffer,
                   nextEventIndex, blockStart, dispatched>>

\* Synthesiser::stopVoice on the first voice
VoiceStop(allowTailOff) ==
    /\ sampleRate # 0
    /\ voices' = [voices EXCEPT ![1] = stopNote(@, allowTailOff)]
    /\ lastVoiceCall' = VoiceCall("stopNote", allowTailOff, {1})
    /\ bufferToFill' = Region(0, 0)
    /\ outputBuffer' = Region(0, 0)
    /\ renderRange' = <<0, 0>>
    /\ UNCHANGED <<samplePosition, sampleRate, sequence, midiBuffer, lastNoteOnCounter,
                   nextEventIndex, blockStart, dispatched>>

\* SineWaveVoice::renderNextBlock of the first voice on samples startSample ..
\* startSample + numSamples - 1 of a buffer that holds `fill'
VoiceRender(fill, startSample, numSamples) ==
    /\ sampleRate # 0
    /\ startSample + numSamples <= VoiceBufferLen
    /\ sustainQuotaLeft(voices[1], numSamples)
    /\ \E r \in {renderNextBlock(voices[1], Region(VoiceBufferLen, fill),
                                 startSample, numSamples)} :
          /\ voices' = [voices EXCEPT ![1] = r.voice]
          /\ outputBuffer' = r.buffer
    /\ bufferToFill' = Region(VoiceBufferLen, fill)
    /\ renderRange' = <<startSample, numSamples>>
    /\ lastVoiceCall' = VoiceCall("renderNextBlock", FALSE, {1})
    /\ UNCHANGED <<samplePosition, sampleRate, sequence, midiBuffer, lastNoteOnCounter,
                   nextEventIndex, blockStart, dispatched>>

NextVoice ==
    \/ \E r \in PlaybackRates : prepareToPlay(r)
    \/ \E n \in VoiceNotes, v \in VoiceVelocities : VoiceStart(n, v)
    \/ \E a \in BOOLEAN : VoiceStop(a)
    \/ \E f \in Fills, s \in 0..VoiceBufferLen, n \in 0..VoiceBufferLen : VoiceRender(f, s, n)

SpecVoice == Init /\ [][NextVoice]_vars

----------------------------------------------------------------------------
(* The synth driven as getNextAudioBlock drives it, synth.renderNextBlock on a cleared
   region with a midi buffer of at most one event at sample 0, the event being any
   note-on or note-off instead of the next one of the sequence. *)

\* the midi buffers handed to the synth
PoolMidiBuffers ==
    {<<>>} \cup {<<Message(on, n, 100, 0)>> : on \in BOOLEAN, n \in PoolNotes}

\* number of note-ons in a midi buffer
noteOns(ms) == Cardinality({k \in DOMAIN ms : ms[k].isNoteOn})

\* synth.renderNextBlock and the advance of the clock that follows it
PoolRender(ms, numSamples) ==
    /\ sampleRate # 0
    /\ lastNoteOnCounter + noteOns(ms) <= MaxPoolNoteOns
    /\ samplePosition + numSamples <= MaxPoolClock
    /\ (numSamples = 0) = (ms # <<>>)
    /\ \E r \in {synthRenderNextBlock(voices, lastNoteOnCounter, sampleRate, ms,
                                       clearActiveBufferRegion(Region(numSamples, 0)),
                                       numSamples)} :
          /\ voices' = r.voices
          /\ lastNoteOnCounter' = r.counter
          /\ outputBuffer' = r.buffer
    /\ midiBuffer' = ms
    /\ samplePosition' = samplePosition + numSamples
    /\ bufferToFill' = Region(numSamples, 0)
    /\ renderRange' = <<0, numSamples>>
    /\ lastVoiceCall' = VoiceCall("renderNextBlock", FALSE, DOMAIN voices)
    /\ UNCHANGED <<sampleRate, sequence, nextEventIndex, blockStart, dispatched>>

NextPool ==
    \/ \E r \in PlaybackRates : prepareToPlay(r)
    \/ \E ms \in PoolMidiBuffers, n \in PoolBlockSizes : PoolRender(ms, n)

SpecPool == Init /\ [][NextPool]_vars

----------------------------------------------------------------------------
(* Vocabulary of the properties *)

\* number of samples of the last block
lastNumSamples == Len(outputBuffer[1])

\* a getNextAudioBlock call has returned
blockDone == blockStart >= 0

\* this step is a getNextAudioBlock call (blockStart takes the position at entry,
\* which is beyond the position at entry of every earlier block)
isBlockStep == blockStart' # blockStart

\* timestamp of the last event of the sequence
lastEventTime == sequence[Len(sequence)].time

\* timestamp of the earliest note-on of the sequence
earliestNoteOnTime ==
    LET ons == {i \in DOMAIN sequence : sequence[i].isNoteOn}
    IN sequence[CHOOSE i \in ons : \A j \in ons : sequence[i].time <= sequence[j].time].time

\* event index k (from 0) has been handed to the synth
wasDispatched(k) == \E d \in DOMAIN dispatched : dispatched[d] = k

\* some voice is sounding midi note n
sounding(n) == \E i \in DOMAIN voices : voices[i].currentlyPlayingNote = n

----------------------------------------------------------------------------
(* C1: in a block with clock position P and N samples, the event returned by the
   query is dispatched exactly when P <= t < P + N. *)
C1_HalfOpenWindow ==
    (blockDone /\ nextEventIndex < Len(sequence)) =>
        LET t == getEventTime(sequence, nextEventIndex)
        IN (midiBuffer # <<>>) <=> (blockStart <= t /\ t < blockStart + lastNumSamples)

(* C2: two events with the same timestamp t > 0 are both dispatched, the one inserted
   first before the other; stated for the point where the clock has left every
   timestamp behind, after which no block dispatches anything. *)
C2_TiedEventsBothDelivered ==
    (samplePosition > lastEventTime) =>
        \A i, j \in 0..(Len(sequence) - 1) :
            (i < j /\ sequence[i + 1].time = sequence[j + 1].time /\ sequence[i + 1].time > 0) =>
                \E a, b \in DOMAIN dispatched :
                    a < b /\ dispatched[a] = i /\ dispatched[b] = j

(* C3: with blocks of 512 samples from clock 0, after the block that contains sample
   44100 two voices are active, one on pitch 60 and one on pitch 72. *)
C3_TwoVoicesAfterFirstNotes ==
    (blockDone /\ blockStart <= 44100 /\ 44100 < blockStart + lastNumSamples) =>
        \E i, j \in DOMAIN voices :
            /\ i # j
            /\ voices[i].currentlyPlayingNote = 60 /\ voices[i].angleDelta # 0
            /\ voices[j].currentlyPlayingNote = 72 /\ voices[j].angleDelta # 0

(* C4: with blocks of 512 samples from clock 0, nothing is written at a sample position
   below the timestamp of the earliest note-on: every rendered sample of absolute
   position < 44100 is silent. *)
C4_SilentBeforeFirstNoteOn ==
    blockDone =>
        \A c \in DOMAIN outputBuffer : \A i \in DOMAIN outputBuffer[c] :
            (blockStart + (i - 1) < earliestNoteOnTime) => outputBuffer[c][i] = 0

\* no index occurs twice in the dispatch history
noEventTwice ==
    \A a, b \in DOMAIN dispatched : dispatched[a] = dispatched[b] => a = b

(* C5: the index returned by the per-block query never decreases from block to block,
   and no event is dispatched more than once. *)
C5_QueryMonotoneNoRedelivery ==
    [](noEventTwice) /\ [][nextEventIndex' >= nextEventIndex]_vars

C5_Witness ==
    /\ nextEventIndex = Len(sequence)
    /\ Len(dispatched) >= 4

(* C6: the clock starts at 0, a block adds exactly its sample count to it, and no
   other operation (prepareToPlay, releaseResources) changes it. *)
C6_ClockAdvancesByBlock ==
    /\ samplePosition = 0
    /\ [][ /\ isBlockStep => /\ samplePosition' = samplePosition + Len(outputBuffer'[1])
                             /\ blockStart' = samplePosition
           /\ ~isBlockStep => samplePosition' = samplePosition ]_vars

C6_Witness ==
    /\ sampleRate # 0
    /\ samplePosition > earliestNoteOnTime
    /\ samplePosition = blockStart + lastNumSamples

(* C7: once the clock is past the last timestamp, a block dispatches nothing, still
   renders the voices (a decaying voice decays further, a sustaining one advances its
   phase by the block) and advances the clock by the block size. *)
C7_ExhaustedTimelineKeepsRunning ==
    [][ (isBlockStep /\ samplePosition > lastEventTime) =>
            /\ midiBuffer' = <<>>
            /\ dispatched' = dispatched
            /\ samplePosition' = samplePosition + Len(outputBuffer'[1])
            /\ \A i \in DOMAIN voices :
                   /\ (voices[i].angleDelta # 0 /\ voices[i].tailOff > 0) =>
                          voices'[i].tailOff < voices[i].tailOff
                   /\ (voices[i].angleDelta # 0 /\ voices[i].tailOff = 0) =>
                          voices'[i].currentAngle =
                              voices[i].currentAngle + Len(outputBuffer'[1]) * voices[i].angleDelta
      ]_vars

\* a block that started past the last timestamp has rendered the end of a decay
C7_Witness ==
    /\ blockStart > lastEventTime
    /\ midiBuffer = <<>>
    /\ \E i \in DOMAIN outputBuffer[1] : outputBuffer[1][i] # 0
    /\ \A i \in DOMAIN voices : ~isVoiceActive(voices[i])

\* the voice is fading out
decaying(v) == v.angleDelta # 0 /\ v.tailOff > 0

\* the voice is idle
idle(v) == v.angleDelta = 0 /\ v.currentlyPlayingNote = NoNote

\* the step calls the given method on voice i
calls(method, i) == lastVoiceCall'.method = method /\ i \in lastVoiceCall'.voices

(* C8: while a voice decays, tailOff never increases (whatever is called on the voice,
   short of a new start), and a further stopNote(allowTailOff = true) leaves the whole
   voice unchanged. *)
C8_DecayMonotoneReleaseIdempotent ==
    [][ \A i \in DOMAIN voices :
            decaying(voices[i]) =>
                /\ ~calls("startNote", i) => voices'[i].tailOff <= voices[i].tailOff
                /\ (calls("stopNote", i) /\ lastVoiceCall'.allowTailOff) =>
                       voices'[i] = voices[i]
      ]_vars

\* stopNote(true) has just been called on a voice that is in the middle of its decay
C8_Witness ==
    /\ lastVoiceCall = VoiceCall("stopNote", TRUE, {1})
    /\ decaying(voices[1])
    /\ voices[1].tailOff < TailOffOne

(* C9: stopNote(allowTailOff = false) leaves the voice idle (angleDelta = 0, no note),
   whatever its state was, and an idle voice stays idle and adds nothing to the buffer
   of any render call until it is started again. *)
C9_ImmediateStop ==
    [][ \A i \in DOMAIN voices :
            /\ (calls("stopNote", i) /\ ~lastVoiceCall'.allowTailOff) => idle(voices'[i])
            /\ (idle(voices[i]) /\ ~calls("startNote", i)) =>
                   /\ idle(voices'[i])
                   /\ (calls("renderNextBlock", i) /\ lastVoiceCall'.voices = {i}) =>
                          outputBuffer' = bufferToFill'
      ]_vars

\* a whole buffer has been rendered by a voice that was stopped at once during its decay
C9_Witness ==
    /\ lastVoiceCall = VoiceCall("renderNextBlock", FALSE, {1})
    /\ idle(voices[1])
    /\ voices[1].tailOff > TailOffThreshold /\ voices[1].tailOff < TailOffOne
    /\ renderRange = <<0, VoiceBufferLen>>
    /\ outputBuffer = bufferToFill

(* C10: a render call on a voice whose angleDelta is 0 leaves every sample of the
   buffer and the voice itself unchanged, for every start offset and sample count. *)
C10_IdleFastPath ==
    [][ \A i \in DOMAIN voices :
            (voices[i].angleDelta = 0 /\ calls("renderNextBlock", i)
             /\ lastVoiceCall'.voices = {i}) =>
                /\ outputBuffer' = bufferToFill'
                /\ voices'[i] = voices[i]
      ]_vars

\* a voice that was stopped at once while it sustained, so that it keeps a phase and a
\* level, has been rendered on a range that starts inside a buffer that is not silent
C10_Witness ==
    /\ lastVoiceCall = VoiceCall("renderNextBlock", FALSE, {1})
    /\ voices[1].angleDelta = 0
    /\ voices[1].tailOff = 0 /\ voices[1].level > 0 /\ voices[1].currentAngle > 0
    /\ renderRange[1] > 0 /\ renderRange[2] > 0
    /\ outputBuffer = bufferToFill
    /\ \E c \in DOMAIN bufferToFill : \E k \in DOMAIN bufferToFill[c] : bufferToFill[c][k] # 0

----------------------------------------------------------------------------
(* Vocabulary of the voice pool *)

\* the step handles a note-on
noteOnStep == lastNoteOnCounter' = lastNoteOnCounter + 1

\* the note-on or note-off the step hands to the synth
handled == midiBuffer'[1]

\* the voice a note-on step has started
startedVoice == CHOOSE k \in DOMAIN voices' : voices'[k].noteOnTime = lastNoteOnCounter'

\* the voices that play no note
idleVoices == {i \in DOMAIN voices : ~isVoiceActive(voices[i])}

\* the voices assigned to midi note n
assigned(n) == {i \in DOMAIN voices : voices[i].currentlyPlayingNote = n}

\* the voices of S started first
oldest(S) == {i \in S : \A j \in S : voices[i].noteOnTime <= voices[j].noteOnTime}

\* the voices whose key is held, and the lowest and the highest note held
heldVoices == {i \in DOMAIN voices : isVoiceActive(voices[i]) /\ voices[i].keyDown}
isLowestHeld(n) == \A j \in heldVoices : n <= voices[j].currentlyPlayingNote
isHighestHeld(n) == \A j \in heldVoices : n >= voices[j].currentlyPlayingNote

\* the started voice plays the handled note from the beginning
restarted(k) ==
    /\ voices'[k].currentlyPlayingNote = handled.note
    /\ voices'[k].currentAngle = 0
    /\ voices'[k].tailOff = 0
    /\ voices'[k].angleDelta # 0

(* C11, as stated: a note-on takes the lowest-index idle voice; when all four voices are
   sounding it steals the first voice in pool order, which is restarted with the new
   pitch; the pool keeps its four voices. *)
C11_StealsFirstInPoolOrder ==
    /\ Len(voices) = NumVoices
    /\ [][ noteOnStep =>
               /\ idleVoices # {} =>
                      startedVoice \in idleVoices /\ \A j \in idleVoices : startedVoice <= j
               /\ idleVoices = {} => startedVoice = 1
               /\ restarted(startedVoice)
               /\ Len(voices') = NumVoices
         ]_vars

(* C11, amended: a note-on takes the lowest-index idle voice; when all four voices are
   sounding it does not fail but steals exactly one of them, which is restarted with the
   new pitch: the longest-sounding voice already on that pitch if there is one, else the
   longest-sounding released voice if there is one, else a held voice before which only
   voices on the lowest or the highest held note were started; the pool keeps its four
   voices. *)
C11_AllocationPolicy ==
    /\ Len(voices) = NumVoices
    /\ [][ noteOnStep =>
               /\ \A i, j \in DOMAIN voices' :
                      (voices'[i].noteOnTime = lastNoteOnCounter'
                       /\ voices'[j].noteOnTime = lastNoteOnCounter') => i = j
               /\ idleVoices # {} =>
                      startedVoice \in idleVoices /\ \A j \in idleVoices : startedVoice <= j
               /\ (idleVoices = {} /\ assigned(handled.note) # {}) =>
                      startedVoice \in oldest(assigned(handled.note))
               /\ (idleVoices = {} /\ assigned(handled.note) = {}
                   /\ DOMAIN voices # heldVoices) =>
                      startedVoice \in oldest(DOMAIN voices \ heldVoices)
               /\ (idleVoices = {} /\ assigned(handled.note) = {}
                   /\ DOMAIN voices = heldVoices) =>
                      \A j \in DOMAIN voices :
                          voices[j].noteOnTime < voices[startedVoice].noteOnTime =>
                              \/ isLowestHeld(voices[j].currentlyPlayingNote)
                              \/ isHighestHeld(voices[j].currentlyPlayingNote)
               /\ restarted(startedVoice)
               /\ Len(voices') = NumVoices
         ]_vars

\* the fifth note-on, with no block rendered before it, has taken a voice that was
\* sounding, and not the first of the pool
C11_Witness ==
    /\ samplePosition = 0
    /\ lastNoteOnCounter = NumVoices + 1
    /\ midiBuffer # <<>> /\ midiBuffer[1].isNoteOn
    /\ \E k \in DOMAIN voices :
           /\ k # 1
           /\ voices[k].noteOnTime = lastNoteOnCounter
           /\ voices[k].currentlyPlayingNote = midiBuffer[1].note
           /\ voices[k].currentAngle = 0

(* C12, as stated: whatever note-ons and note-offs the pool has handled (two note-ons
   for one pitch with no note-off between them, a note-on for a pitch whose voice still
   decays), at most one voice is assigned to any pitch. *)
C12_OneVoicePerPitch ==
    \A n \in PoolNotes : Cardinality(assigned(n)) <= 1

(* C12, amended: whatever note-ons and note-offs the pool has handled, at most one of
   the voices assigned to a pitch is sustaining (tailOff = 0): a note-on for a pitch
   that is still assigned puts the earlier voices into their decay, and they stay
   assigned to the pitch, next to the new voice, until the decay ends. *)
C12_OneSustainingVoicePerPitch ==
    /\ \A n \in PoolNotes :
           Cardinality({i \in assigned(n) : voices[i].tailOff = 0}) <= 1
    /\ \A i \in DOMAIN voices :
           isVoiceActive(voices[i]) => voices[i].currentlyPlayingNote \in PoolNotes

\* a second note-on for a pitch with no note-off between the two: the first voice decays
\* with its key still down, the second sustains, and both are assigned to the pitch
C12_Witness ==
    \E i, j \in DOMAIN voices :
        /\ i # j
        /\ voices[i].currentlyPlayingNote = voices[j].currentlyPlayingNote
        /\ isVoiceActive(voices[i])
        /\ voices[i].tailOff > 0 /\ voices[i].angleDelta # 0 /\ voices[i].keyDown
        /\ voices[j].tailOff = 0 /\ voices[j].angleDelta # 0
        /\ voices[i].noteOnTime < voices[j].noteOnTime

\* the step hands the synth a note-off for a note that no voice is assigned to
unmatchedNoteOffStep ==
    /\ midiBuffer' # <<>>
    /\ ~handled.isNoteOn
    /\ assigned(handled.note) = {}

(* C13: a note-off for a pitch that no voice is assigned to (such as the note-off of a
   note whose note-on was never dispatched) changes nothing: every voice of the pool
   and the synth's note-on counter are as they were before the dispatch. *)
C13_UnmatchedNoteOffIsNoOp ==
    [][ unmatchedNoteOffStep =>
            /\ voices' = voices
            /\ lastNoteOnCounter' = lastNoteOnCounter
      ]_vars

\* a note-off for 72 has been handled while one voice sustains 60 and another decays on
\* 60, and no voice was on 72
C13_Witness ==
    /\ midiBuffer = <<Message(FALSE, 72, 100, 0)>>
    /\ assigned(72) = {}
    /\ \E i, j \in assigned(60) :
           /\ voices[i].angleDelta # 0 /\ voices[i].tailOff = 0 /\ voices[i].keyDown
           /\ voices[j].angleDelta # 0 /\ voices[j].tailOff > 0

\* the fields of SineWaveVoice itself
oscillator(v) ==
    [currentAngle |-> v.currentAngle, angleDelta |-> v.angleDelta,
     level |-> v.level, tailOff |-> v.tailOff]

(* C14: whatever state a voice is in when it is started (idle after a decay, idle after
   an immediate stop, sustaining, in the middle of a decay), it is left as a voice that
   was never used is left by the same start: phase 0, tailOff 0, level = velocity * 0.15
   and angleDelta = cycles per sample of the note at the sample rate. *)
C14_StartOverwritesState ==
    [][ \A i \in DOMAIN voices :
            calls("startNote", i) =>
                \E velocity \in VoiceVelocities :
                    /\ oscillator(voices'[i]) =
                           oscillator(startNote(IdleVoice, voices'[i].currentlyPlayingNote,
                                                velocity, sampleRate'))
                    /\ voices'[i].currentAngle = 0
                    /\ voices'[i].tailOff = 0
                    /\ voices'[i].level * 127 <= velocity * 150000
                    /\ voices'[i].level * 127 > (velocity * 150000) - 127
                    /\ voices'[i].angleDelta > 0
      ]_vars

\* the voice has been started a second time and plays from the beginning
C14_Witness ==
    /\ lastVoiceCall = VoiceCall("startNote", FALSE, {1})
    /\ lastNoteOnCounter = 2
    /\ voices[1].noteOnTime = 2
    /\ voices[1].currentAngle = 0 /\ voices[1].tailOff = 0 /\ voices[1].angleDelta # 0

\* what a voice adds to a silent region of numSamples samples when it renders alone
renderedAlone(v, numSamples) == renderNextBlock(v, Region(numSamples, 0), 0, numSamples).buffer

\* the voices as the block's events leave them, before the block is rendered
voicesAtRender ==
    handleMidiEvents(voices, lastNoteOnCounter, sampleRate, midiBuffer').voices

(* C15: when a block renders two sounding voices, every sample of every channel of the
   region is the sum of what each of the two adds when it renders alone into a silent
   region, and rendering the two in either order gives that same region. *)
C15_AdditiveSuperposition ==
    [][ isBlockStep =>
            \E vs \in {voicesAtRender} :
                \A i, j \in DOMAIN vs :
                    (i < j /\ {k \in DOMAIN vs : vs[k].angleDelta # 0} = {i, j}) =>
                        \E n \in {Len(outputBuffer'[1])} :
                        \E a \in {renderedAlone(vs[i], n)}, b \in {renderedAlone(vs[j], n)} :
                            /\ \A c \in DOMAIN outputBuffer' : \A k \in DOMAIN outputBuffer'[c] :
                                   outputBuffer'[c][k] = a[c][k] + b[c][k]
                            /\ renderNextBlock(vs[j], a, 0, n).buffer = outputBuffer'
                            /\ renderNextBlock(vs[i], b, 0, n).buffer = outputBuffer'
      ]_vars

\* the block that hands the note-off of 64 to the synth has rendered the sustaining voice
\* on 60 and the decaying voice on 64 into a region that is not silent
C15_Witness ==
    /\ blockDone /\ midiBuffer = <<Message(FALSE, 64, 0, 44100 * 2 + 22000)>>
    /\ \E i, j \in DOMAIN voices :
           /\ voices[i].currentlyPlayingNote = 60
           /\ voices[i].angleDelta # 0 /\ voices[i].tailOff = 0 /\ voices[i].currentAngle > 0
           /\ voices[j].currentlyPlayingNote = 64
           /\ voices[j].angleDelta # 0 /\ voices[j].tailOff > 0
           /\ voices[j].tailOff < TailOffOne
    /\ \E k \in DOMAIN outputBuffer[1] : outputBuffer[1][k] # 0

\* other contents the region could have held at entry (silence, and something else)
PriorContents == {0, -3}

(* C16: the region a block returns is the region the same block would return had the
   region held anything else at entry (it depends on the voices, the clock and the
   sequence only); when every voice is idle at entry and no event is dispatched, every
   sample of the region is 0. *)
C16_BlockStartsFromSilence ==
    [][ isBlockStep =>
            \E n \in {Len(outputBuffer'[1])} :
                /\ \A fill \in PriorContents :
                       synthRenderNextBlock(voices, lastNoteOnCounter, sampleRate, midiBuffer',
                                            clearActiveBufferRegion(Region(n, fill)), n).buffer
                           = outputBuffer'
                /\ ((\A i \in DOMAIN voices : idle(voices[i])) /\ midiBuffer' = <<>>) =>
                       \A c \in DOMAIN outputBuffer' : \A k \in DOMAIN outputBuffer'[c] :
                           outputBuffer'[c][k] = 0
      ]_vars

\* after the last decay has ended, a block has turned a region that was not silent into
\* a silent one
C16_Witness ==
    /\ blockStart > lastEventTime + 528
    /\ midiBuffer = <<>>
    /\ \A i \in DOMAIN voices : idle(voices[i])
    /\ \E i \in DOMAIN voices : voices[i].level > 0
    /\ lastNumSamples > 0
    /\ \A c \in DOMAIN bufferToFill : \A k \in DOMAIN bufferToFill[c] : bufferToFill[c][k] # 0
    /\ \A c \in DOMAIN outputBuffer : \A k \in DOMAIN outputBuffer[c] : outputBuffer[c][k] = 0

(* C17: a block dispatches at most one event, and the event it dispatches is the event
   of lowest index whose timestamp is at or after the clock position at entry of the
   block, also when the timestamps of several events lie inside the block. *)
C17_OneEarliestEventPerBlock ==
    [][ isBlockStep =>
            /\ Len(midiBuffer') <= 1
            /\ Len(dispatched') <= Len(dispatched) + 1
            /\ (midiBuffer' = <<>>) = (dispatched' = dispatched)
            /\ midiBuffer' # <<>> =>
                   \E k \in 0..(Len(sequence) - 1) :
                       /\ dispatched' = Append(dispatched, k)
                       /\ midiBuffer' = <<sequence[k + 1]>>
                       /\ sequence[k + 1].time >= samplePosition
                       /\ \A j \in 0..(k - 1) : sequence[j + 1].time < samplePosition
      ]_vars

\* a block whose window holds the timestamps of two events has dispatched one event, the
\* first of the two
C17_Witness ==
    /\ blockDone
    /\ \E i, j \in DOMAIN sequence :
           /\ i < j
           /\ sequence[i].time > blockStart /\ sequence[i].time <= blockStart + lastNumSamples
           /\ sequence[j].time > blockStart /\ sequence[j].time <= blockStart + lastNumSamples
           /\ midiBuffer = <<sequence[i]>>
           /\ dispatched = <<i - 1>>

(* C18, as stated, for the two cases it names: a decaying voice that loses its note,
   because its tailOff reaches 0.005 during a render call or because it is stopped at
   once, is left with angleDelta = 0 and tailOff = 0. *)
C18_IdleVoiceIsReset ==
    [][ \A i \in DOMAIN voices :
            (decaying(voices[i]) /\ ~isVoiceActive(voices'[i])) =>
                (voices'[i].angleDelta = 0 /\ voices'[i].tailOff = 0)
      ]_vars

(* C18, amended: a voice that plays no note has angleDelta = 0, but its tailOff is not
   reset: a decaying voice whose tailOff reaches 0.005 during a render call is left with
   the value reached (above 0, at most 0.005), one that is stopped at once with the
   tailOff it had, and tailOff goes back to 0 only when the voice is started again. *)
C18_IdleVoiceKeepsTailOff ==
    /\ [](\A i \in DOMAIN voices : ~isVoiceActive(voices[i]) => voices[i].angleDelta = 0)
    /\ [][ \A i \in DOMAIN voices :
               /\ (decaying(voices[i]) /\ ~isVoiceActive(voices'[i])) =>
                      /\ voices'[i].angleDelta = 0
                      /\ calls("renderNextBlock", i) =>
                             /\ voices'[i].tailOff > 0
                             /\ voices'[i].tailOff <= TailOffThreshold
                      /\ calls("stopNote", i) => voices'[i].tailOff = voices[i].tailOff
               /\ (voices[i].tailOff > 0 /\ voices'[i].tailOff = 0) => calls("startNote", i)
         ]_vars

\* a render call has taken the voice to the end of its decay: it plays no note, and its
\* tailOff is the value that met the threshold
C18_Witness ==
    /\ lastVoiceCall = VoiceCall("renderNextBlock", FALSE, {1})
    /\ ~isVoiceActive(voices[1])
    /\ voices[1].angleDelta = 0
    /\ voices[1].tailOff > 0 /\ voices[1].tailOff <= TailOffThreshold
    /\ \E c \in DOMAIN outputBuffer : \E k \in DOMAIN outputBuffer[c] :
           outputBuffer[c][k] # bufferToFill[c][k]

\* tailOff t after n more samples of a decay that multiplies it by 0.99 per sample
RECURSIVE decayBy(_, _)
decayBy(t, n) ==
    IF n = 0 THEN t
    ELSE IF n = 1 THEN (t * 99) \div 100
    ELSE LET half == decayBy(t, n \div 2)
         IN IF half >= 0 THEN decayBy(half, n - (n \div 2)) ELSE 0

\* tailOff after k samples of a decay that starts at 1.0, for k = 0 .. 528
DecayTable == [k \in 0..528 |-> decayBy(TailOffOne, k)]

\* the number of samples of decay that lead to a value of tailOff
SamplesDecayed == [t \in {DecayTable[k] : k \in DOMAIN DecayTable} |->
                      CHOOSE k \in DOMAIN DecayTable : DecayTable[k] = t]

(* C19: stopNote(true) on a sustaining voice sets tailOff to 1.0; from there every
   rendered sample multiplies tailOff by 0.99, and the voice goes idle in the render call
   that renders its 528th sample since the release, however the samples are split over
   calls; that call leaves the samples after the 528th as they were. *)
C19_ReleaseEndsAfter528Samples ==
    [][ \A i \in DOMAIN voices :
            /\ (voices[i].angleDelta # 0 /\ voices[i].tailOff = 0
                /\ calls("stopNote", i) /\ lastVoiceCall'.allowTailOff) =>
                   /\ voices'[i].tailOff = TailOffOne
                   /\ isVoiceActive(voices'[i]) /\ voices'[i].angleDelta # 0
            /\ (decaying(voices[i]) /\ calls("renderNextBlock", i)
                /\ lastVoiceCall'.voices = {i}) =>
                   /\ voices[i].tailOff \in DOMAIN SamplesDecayed
                   /\ \E k \in {SamplesDecayed[voices[i].tailOff]} :
                      \E s \in {renderRange'[1]}, n \in {renderRange'[2]} :
                          /\ k < 528
                          /\ k + n < 528 =>
                                 /\ isVoiceActive(voices'[i]) /\ voices'[i].angleDelta # 0
                                 /\ voices'[i].tailOff = DecayTable[k + n]
                                 /\ voices'[i].tailOff > TailOffThreshold
                          /\ k + n >= 528 =>
                                 /\ idle(voices'[i])
                                 /\ voices'[i].tailOff = DecayTable[528]
                                 /\ voices'[i].tailOff <= TailOffThreshold
                                 /\ \A c \in DOMAIN outputBuffer' :
                                    \A j \in DOMAIN outputBuffer'[c] :
                                        (j - 1 >= s + (528 - k)) =>
                                            outputBuffer'[c][j] = bufferToFill'[c][j]
      ]_vars

\* the voice has gone idle on the first sample of a call for two samples: the first
\* sample of the buffer has been added to, the second has not
C19_Witness ==
    /\ lastVoiceCall = VoiceCall("renderNextBlock", FALSE, {1})
    /\ idle(voices[1])
    /\ voices[1].tailOff = DecayTable[528]
    /\ renderRange = <<0, 2>>
    /\ outputBuffer[1][1] # bufferToFill[1][1]
    /\ outputBuffer[1][2] = bufferToFill[1][2]

\* the clock has reached the timestamp of event k and the event has not been dispatched
skipped(k) == samplePosition >= sequence[k + 1].time /\ ~wasDispatched(k)

(* C20: an event that has not been dispatched when the clock has reached its timestamp
   (the query of the block that held it returned another event, or its timestamp was the
   block's start position) is not dispatched by any later block. *)
C20_SkippedEventsAreDropped ==
    [][ \A k \in 0..(Len(sequence) - 1) : skipped(k) => skipped(k)' ]_vars

\* the clock is past the last timestamp; the second of the two events stamped 44100 was
\* skipped and has not been dispatched since, while every other event has been
C20_Witness ==
    /\ samplePosition > lastEventTime
    /\ \E k \in 0..(Len(sequence) - 1) :
           /\ k > 0
           /\ sequence[k + 1].time = sequence[k].time
           /\ skipped(k)
           /\ \A j \in 0..(Len(sequence) - 1) : j # k => wasDispatched(j)

====
